---- MODULE Spec2Model ----
(***************************************************************************)
(* State-machine model of src/src/App.tsx (Secure Exam System): the React  *)
(* state of the App component, its event handlers and effects, the         *)
(* requests in flight to the exam store, and the environment signals the   *)
(* component listens to.  One action is one handler run followed by the    *)
(* re-run of the effects whose dependencies the handler changed (React     *)
(* commits a handler's state updates and flushes the effects before the    *)
(* next event is handled).                                                 *)
(***************************************************************************)
EXTENDS Integers, Sequences, FiniteSets

(***************************************************************************)
(* Bounds of the model.                                                    *)
(***************************************************************************)
\* submitExam invocations followed within one run of the exam view
MaxCalls == 2
\* startExam invocations followed in one page load
MaxStarts == 2
\* exams handleSaveExam creates in one behaviour (ids exam-1 .. exam-MaxExams)
MaxExams == 2
\* longest exam duration, in minutes, that handleSaveExam is followed for
MaxMinutes == 1

(***************************************************************************)
(* Program constants.                                                      *)
(***************************************************************************)
\* exam.durationMinutes * 60
SecondsPerMinute == 60

\* a nullable value is <<>> (null or undefined) or <<v>>
NULL == <<>>
Some(v) == <<v>>

\* the text of an option that does not exist
UNDEFINED == "<undefined>"

\* extractedQuestions after setExtractedQuestions(undefined): a value no extraction
\* returns stands for undefined
UndefinedQuestions == << [id |-> UNDEFINED, text |-> UNDEFINED, options |-> <<>>] >>

\* the examiner dashboard reads extractedQuestions.length (lines 601-625): with
\* undefined the render throws and React unmounts the component
RenderThrows(v, questions) == v = "examiner" /\ questions = UndefinedQuestions

(***************************************************************************)
(* Inputs.                                                                 *)
(***************************************************************************)
\* text typed into a form field is a sequence of characters
Names == {"Ann"}
Classes == {"12A"}
\* a field cleared again
EmptyTexts == {""}
Titles == {"Midterm"}
Emails == {"e@school.edu"}
Files == {"paper.pdf"}
DurationInputs == {<<"1">>}
Keys == {"ArrowRight", "ArrowLeft", "1", "2", "3", "4"}

\* what the extraction collaborator returns (JSON.parse(response.text)); the second
\* question repeats an option text
ExtractionOutputs ==
  { [questions |-> << [id |-> "q1", text |-> "t1", options |-> <<"a", "b">>],
                      [id |-> "q2", text |-> "t2", options |-> <<"c", "c">>] >>,
     solutionKey |-> [q1 |-> 0, q2 |-> 1]] }

\* a duration of no minutes, which the Duration field and parseInt accept
ZeroDurationInputs == {<<"0">>}

\* a negative duration, which the Duration field (type number) and parseInt accept
NegativeDurationInputs == {<<"-", "1">>}

\* outputs that parse and have both fields, with a solutionKey that does not fit
\* the questions: an index past the options, an entry for another id only
UnkeyedOutputs ==
  { [questions |-> << [id |-> "q1", text |-> "t1", options |-> <<"a", "b">>] >>,
     solutionKey |-> [q1 |-> 2]],
    [questions |-> << [id |-> "q1", text |-> "t1", options |-> <<"a", "b">>] >>,
     solutionKey |-> [q2 |-> 0]] }

\* outputs that parse but are malformed or empty: {} (also what an empty text is
\* parsed as), questions missing, solutionKey missing, no questions
MalformedOutputs ==
  { <<>>,
    [solutionKey |-> [q1 |-> 0]],
    [questions |-> << [id |-> "q1", text |-> "t1", options |-> <<"a", "b">>] >>],
    [questions |-> <<>>, solutionKey |-> <<>>] }

\* the output for another paper
SecondPaperOutputs ==
  { [questions |-> << [id |-> "q3", text |-> "t3", options |-> <<"x", "y">>] >>,
     solutionKey |-> [q3 |-> 0]] }

(***************************************************************************)
(* Pure helpers.                                                           *)
(***************************************************************************)
DigitValue(c) ==
  CASE c = "0" -> 0 [] c = "1" -> 1 [] c = "2" -> 2 [] c = "3" -> 3 [] c = "4" -> 4
    [] c = "5" -> 5 [] c = "6" -> 6 [] c = "7" -> 7 [] c = "8" -> 8 [] c = "9" -> 9

IsDigit(c) == c \in {"0", "1", "2", "3", "4", "5", "6", "7", "8", "9"}

RECURSIVE ParseDigits(_, _)
ParseDigits(s, acc) ==
  IF s = <<>> \/ ~IsDigit(Head(s)) THEN acc
  ELSE ParseDigits(Tail(s), 10 * acc + DigitValue(Head(s)))

\* parseInt on a text with an optional sign and at least one leading digit
ParseInt(s) ==
  IF s # <<>> /\ Head(s) = "-" THEN 0 - ParseDigits(Tail(s), 0)
  ELSE ParseDigits(s, 0)

\* the index of the last match instead of the first (lastIndexOf)
LastIndexOf(seq, x) ==
  IF \E i \in 1..Len(seq) : seq[i] = x
  THEN (CHOOSE i \in 1..Len(seq) : seq[i] = x /\ \A j \in (i + 1)..Len(seq) : seq[j] # x) - 1
  ELSE -1

\* Array.prototype.indexOf: 0-based index of the first match, -1 if none
IndexOf(seq, x) ==
  IF \E i \in 1..Len(seq) : seq[i] = x
  THEN (CHOOSE i \in 1..Len(seq) : seq[i] = x /\ \A j \in 1..(i - 1) : seq[j] # x) - 1
  ELSE -1

\* options drawn at random with repetition instead of reordered
SampledOrders(seq) ==
  { [i \in 1..Len(seq) |-> seq[p[i]]] : p \in [1..Len(seq) -> 1..Len(seq)] }

\* every order [...options].sort(() => Math.random() - 0.5) can produce
ShuffledOrders(seq) ==
  { [i \in 1..Len(seq) |-> seq[p[i]]] :
      p \in { f \in [1..Len(seq) -> 1..Len(seq)] :
                \A i, j \in 1..Len(seq) : f[i] = f[j] => i = j } }

\* { ...prev, [id]: v }
SetResponse(prev, id, v) ==
  [x \in (DOMAIN prev) \cup {id} |-> IF x = id THEN v ELSE prev[x]]

EmptyResponses == [x \in {} |-> 0]

VARIABLES
  \* React state of App (lines 147-167)
  view, exam, solutionKey, studentInfo, responses, timeLeft, finalResult, isSaved,
  examTitle, examDuration, examinerEmail, questionFile, isProcessing,
  extractedQuestions, extractedKey, currentQuestionIdx, showReview,
  \* environment
  fullscreen,       \* document.fullscreenElement is set
  extraction,       \* handleProcessPDFs is awaiting the extraction collaborator
  saveRequests,     \* POST /api/exams requests whose response is awaited
  submitRequests,   \* POST /api/submit requests whose response is awaited
  store,            \* exams the store has accepted: id -> solution key
  examsCreated,     \* exam ids drawn so far
  registered,       \* what the effects hold: intervals set, security listener sets
  \* history
  starts,           \* startExam invocations that entered the exam view
  elapsed,          \* ticks since the exam view was last entered
  calls             \* submitExam invocations since the exam view was last entered

reactVars == <<view, exam, solutionKey, studentInfo, responses, timeLeft, finalResult,
               isSaved, examTitle, examDuration, examinerEmail, questionFile,
               isProcessing, extractedQuestions, extractedKey, currentQuestionIdx,
               showReview>>
envVars == <<fullscreen, extraction, saveRequests, submitRequests, store, examsCreated,
             registered>>
historyVars == <<starts, elapsed, calls>>
vars == <<reactVars, envVars, historyVars>>

examinerVars == <<examTitle, examDuration, examinerEmail, questionFile, isProcessing,
                  extractedQuestions, extractedKey, isSaved, extraction, saveRequests,
                  store, examsCreated, exam, solutionKey>>
sessionVars == <<responses, timeLeft, finalResult, currentQuestionIdx, showReview,
                 fullscreen, submitRequests, starts, elapsed, calls>>

Init ==
  /\ view = "landing"
  /\ exam = NULL
  /\ solutionKey = NULL
  /\ studentInfo = [name |-> "", class |-> ""]
  /\ responses = EmptyResponses
  /\ timeLeft = 0
  /\ finalResult = NULL
  /\ isSaved = FALSE
  /\ examTitle = ""
  /\ examDuration = <<"3", "0">>
  /\ examinerEmail = ""
  /\ questionFile = NULL
  /\ isProcessing = FALSE
  /\ extractedQuestions = <<>>
  /\ extractedKey = NULL
  /\ currentQuestionIdx = 0
  /\ showReview = FALSE
  /\ fullscreen = FALSE
  /\ extraction = FALSE
  /\ saveRequests = <<>>
  /\ submitRequests = <<>>
  /\ store = [x \in {} |-> 0]
  /\ examsCreated = 0
  /\ registered = [interval |-> 0, security |-> 0]
  /\ starts = 0
  /\ elapsed = 0
  /\ calls = <<>>

(***************************************************************************)
(* Effects: which listeners and timers the effects keep registered.        *)
(***************************************************************************)
\* the security effect has visibilitychange, blur and beforeunload registered
SecurityListening == view = "exam"

\* the timer effect has an interval running
IntervalActive == view = "exam" /\ timeLeft > 0

\* keydown registered whenever the exam view is shown, the review screen included
KeyboardListeningInReview == view = "exam"

\* the keyboard effect has keydown registered
KeyboardListening == view = "exam" /\ ~showReview

\* the timer effect's expiry branch, evaluated when the effect (re-)runs
TimerExpired(v, t) == v = "exam" /\ t <= 0

\* the interval of the previous run left running
IntervalKept(n) == n

\* the cleanup the previous run of the timer effect returned: clearInterval(timer);
\* a run that returned early set no interval
ClearInterval(n) == IF n > 0 THEN n - 1 ELSE 0

\* the listeners of the previous run left registered
ListenersKept(n) == n

\* the cleanup the previous run of the security effect returned: removeEventListener
\* for visibilitychange, blur and beforeunload
RemoveListeners(n) == IF n > 0 THEN n - 1 ELSE 0

\* a re-run of the timer effect (lines 374-385) with view v and timeLeft t
TimerEffect(n, v, t) == ClearInterval(n) + (IF v = "exam" /\ t > 0 THEN 1 ELSE 0)

\* a re-run of the security effect (lines 344-371) with view v
SecurityEffect(n, v) == RemoveListeners(n) + (IF v = "exam" THEN 1 ELSE 0)

\* both effects re-run: view or submitExam (exam, studentInfo, responses) changed
RunEffects ==
  registered' = [interval |-> TimerEffect(registered.interval, view', timeLeft'),
                 security |-> SecurityEffect(registered.security, view')]

\* setView with the value view already has causes no render
RunEffectsIfViewChanged ==
  IF view' # view THEN RunEffects ELSE UNCHANGED registered

\* only timeLeft changed: the timer effect re-runs
RunTimerEffect ==
  registered' = [registered EXCEPT !.interval = TimerEffect(@, view', timeLeft')]

(***************************************************************************)
(* submitExam (lines 319-341), up to the await of fetch.                   *)
(***************************************************************************)
SubmitGuard == exam # NULL /\ studentInfo.name # ""

SubmitRequest(terminated, resp) ==
  [examId |-> exam[1].id, studentName |-> studentInfo.name,
   studentClass |-> studentInfo.class, responses |-> resp, terminated |-> terminated]

\* the requests in flight after submitExam(terminated) ran with `resp` in its closure
SubmitExam(reqs, terminated, resp) ==
  IF SubmitGuard THEN Append(reqs, SubmitRequest(terminated, resp)) ELSE reqs

\* history: the invocation, what triggered it and whether it sent a request
LogCall(cs, trigger) == Append(cs, [trigger |-> trigger, posted |-> SubmitGuard])

(***************************************************************************)
(* Navigation between the views.                                           *)
(***************************************************************************)
\* header logo: onClick={() => setView('landing')}, rendered in every view
ClickHeader ==
  /\ view # "crashed"
  /\ view' = "landing"
  /\ UNCHANGED <<examinerVars, sessionVars, studentInfo>>
  /\ RunEffectsIfViewChanged

ClickExaminerPortal ==
  /\ view = "landing"
  /\ view' = IF RenderThrows("examiner", extractedQuestions) THEN "crashed"
             ELSE "examiner"
  /\ UNCHANGED <<examinerVars, sessionVars, studentInfo>>
  /\ RunEffectsIfViewChanged

ClickStudentPortal ==
  /\ view = "landing"
  /\ view' = "student-reg"
  /\ UNCHANGED <<examinerVars, sessionVars, studentInfo>>
  /\ RunEffectsIfViewChanged

ClickBack ==
  /\ view = "examiner"
  /\ view' = "landing"
  /\ UNCHANGED <<examinerVars, sessionVars, studentInfo>>
  /\ RunEffectsIfViewChanged

(***************************************************************************)
(* Examiner form.                                                          *)
(***************************************************************************)
setExamTitle(v) ==
  /\ view = "examiner"
  /\ examTitle' = v
  /\ UNCHANGED <<view, examDuration, examinerEmail, questionFile, isProcessing,
                 extractedQuestions, extractedKey, isSaved, extraction, saveRequests,
                 store, examsCreated, exam, solutionKey, sessionVars, studentInfo>>
  /\ UNCHANGED registered

setExamDuration(v) ==
  /\ view = "examiner"
  /\ examDuration' = v
  /\ UNCHANGED <<view, examTitle, examinerEmail, questionFile, isProcessing,
                 extractedQuestions, extractedKey, isSaved, extraction, saveRequests,
                 store, examsCreated, exam, solutionKey, sessionVars, studentInfo>>
  /\ UNCHANGED registered

setExaminerEmail(v) ==
  /\ view = "examiner"
  /\ examinerEmail' = v
  /\ UNCHANGED <<view, examTitle, examDuration, questionFile, isProcessing,
                 extractedQuestions, extractedKey, isSaved, extraction, saveRequests,
                 store, examsCreated, exam, solutionKey, sessionVars, studentInfo>>
  /\ UNCHANGED registered

setQuestionFile(f) ==
  /\ view = "examiner"
  /\ questionFile' = Some(f)
  /\ UNCHANGED <<view, examTitle, examDuration, examinerEmail, isProcessing,
                 extractedQuestions, extractedKey, isSaved, extraction, saveRequests,
                 store, examsCreated, exam, solutionKey, sessionVars, studentInfo>>
  /\ UNCHANGED registered

\* Extract Data button (disabled while isProcessing or isSaved) up to the first await
handleProcessPDFs ==
  /\ view = "examiner"
  /\ ~isProcessing /\ ~isSaved
  /\ IF questionFile = NULL \/ examTitle = "" \/ examinerEmail = ""
     THEN UNCHANGED <<isProcessing, extraction>>
     ELSE isProcessing' = TRUE /\ extraction' = TRUE
  /\ UNCHANGED <<view, examTitle, examDuration, examinerEmail, questionFile,
                 extractedQuestions, extractedKey, isSaved, saveRequests,
                 store, examsCreated, exam, solutionKey, sessionVars, studentInfo>>
  /\ UNCHANGED registered

\* data.questions and data.solutionKey of the parsed output
DataQuestions(data) ==
  IF "questions" \in DOMAIN data THEN data.questions ELSE UndefinedQuestions

DataSolutionKey(data) ==
  IF "solutionKey" \in DOMAIN data THEN Some(data.solutionKey) ELSE NULL

\* the collaborator answered: lines 250-252, then the finally block, then the render
ExtractionReturns(data) ==
  /\ extraction
  /\ extraction' = FALSE
  /\ extractedQuestions' = DataQuestions(data)
  /\ extractedKey' = DataSolutionKey(data)
  /\ isProcessing' = FALSE
  /\ view' = IF RenderThrows(view, extractedQuestions') THEN "crashed" ELSE view
  /\ UNCHANGED <<examTitle, examDuration, examinerEmail, questionFile,
                 isSaved, saveRequests, store, examsCreated, exam, solutionKey,
                 sessionVars, studentInfo>>
  /\ RunEffectsIfViewChanged

\* the collaborator (or JSON.parse) threw: the catch block, then the finally block
ExtractionFails ==
  /\ extraction
  /\ extraction' = FALSE
  /\ isProcessing' = FALSE
  /\ UNCHANGED <<view, examTitle, examDuration, examinerEmail, questionFile,
                 extractedQuestions, extractedKey, isSaved, saveRequests, store,
                 examsCreated, exam, solutionKey, sessionVars, studentInfo>>
  /\ UNCHANGED registered

\* originalOptions[extractedKey[q.id]]
CorrectOptionText(q, key) ==
  IF q.id \in DOMAIN key /\ key[q.id] \in 0..(Len(q.options) - 1)
  THEN q.options[key[q.id] + 1]
  ELSE UNDEFINED

\* the outcomes of the map callback (lines 265-276) for one question
ShuffledQuestion(q, key) ==
  { [question |-> [q EXCEPT !.options = so],
     newCorrectIdx |-> IndexOf(so, CorrectOptionText(q, key))] :
      so \in ShuffledOrders(q.options) }

\* the outcomes of extractedQuestions.map(...)
ShuffledQuestions(qs, key) ==
  { sq \in [1..Len(qs) -> UNION { ShuffledQuestion(qs[i], key) : i \in 1..Len(qs) }] :
      \A i \in 1..Len(qs) : sq[i] \in ShuffledQuestion(qs[i], key) }

\* newSolutionKey after the forEach (lines 278-281): a later entry overwrites
NewSolutionKey(sq) ==
  [id \in { sq[i].question.id : i \in 1..Len(sq) } |->
     LET last == CHOOSE i \in 1..Len(sq) :
                   /\ sq[i].question.id = id
                   /\ \A j \in (i + 1)..Len(sq) : sq[j].question.id # id
     IN sq[last].newCorrectIdx]

\* Finalize & Save button (rendered while questions and key exist and ~isSaved),
\* up to the await of fetch; the id 'exam-' + random is the number of the draw
handleSaveExam ==
  /\ view = "examiner"
  /\ Len(extractedQuestions) > 0 /\ extractedKey # NULL /\ ~isSaved
  /\ examsCreated < MaxExams
  /\ ParseInt(examDuration) <= MaxMinutes
  /\ \E sq \in ShuffledQuestions(extractedQuestions, extractedKey[1]) :
       LET newSolutionKey == NewSolutionKey(sq)
           newExam == [id |-> examsCreated + 1,
                       title |-> examTitle,
                       questions |-> [i \in 1..Len(sq) |-> sq[i].question],
                       durationMinutes |-> ParseInt(examDuration)]
       IN /\ exam' = Some(newExam)
          /\ solutionKey' = Some(newSolutionKey)
          /\ saveRequests' = Append(saveRequests,
                                    [exam |-> newExam, solutionKey |-> newSolutionKey,
                                     examinerEmail |-> examinerEmail])
  /\ examsCreated' = examsCreated + 1
  /\ UNCHANGED <<view, examTitle, examDuration, examinerEmail, questionFile,
                 isProcessing, extractedQuestions, extractedKey, isSaved, extraction,
                 store, sessionVars, studentInfo>>
  /\ RunEffects

\* the store answered POST /api/exams (lines 300-304); a fetch that rejects leaves
\* the state as a response that is not ok does; an unmounted component ignores
\* the state update
SaveResponse(i, ok) ==
  /\ i \in 1..Len(saveRequests)
  /\ saveRequests' = SubSeq(saveRequests, 1, i - 1) \o
                     SubSeq(saveRequests, i + 1, Len(saveRequests))
  /\ IF ok
     THEN /\ isSaved' = (isSaved \/ view # "crashed")
          /\ store' = [x \in (DOMAIN store) \cup {saveRequests[i].exam.id} |->
                         IF x = saveRequests[i].exam.id THEN saveRequests[i]
                         ELSE store[x]]
     ELSE UNCHANGED <<isSaved, store>>
  /\ UNCHANGED <<view, examTitle, examDuration, examinerEmail, questionFile,
                 isProcessing, extractedQuestions, extractedKey, extraction,
                 examsCreated, exam, solutionKey, sessionVars, studentInfo>>
  /\ UNCHANGED registered


(***************************************************************************)
(* Student registration and the exam view.                                 *)
(***************************************************************************)
setStudentName(v) ==
  /\ view = "student-reg"
  /\ studentInfo' = [studentInfo EXCEPT !.name = v]
  /\ UNCHANGED <<view, examinerVars, sessionVars>>
  /\ RunEffects

setStudentClass(v) ==
  /\ view = "student-reg"
  /\ studentInfo' = [studentInfo EXCEPT !.class = v]
  /\ UNCHANGED <<view, examinerVars, sessionVars>>
  /\ RunEffects

\* the countdown started from the minutes, not converted to seconds
InitialTimeLeftInMinutes(ex) == ex.durationMinutes

\* setTimeLeft(exam.durationMinutes * 60)
InitialTimeLeft(ex) == ex.durationMinutes * SecondsPerMinute

\* the button enabled whenever an exam is loaded, whatever the registration fields
BeginEnabledWithExam == exam # NULL

\* Begin Examination button: disabled={!studentInfo.name || !studentInfo.class || !exam}
BeginEnabled == studentInfo.name # "" /\ studentInfo.class # "" /\ exam # NULL

\* the Begin Examination button, startExam (lines 308-317), then the timer effect,
\* which runs because view changed
startExam(granted) ==
  /\ view = "student-reg"
  /\ BeginEnabled
  /\ starts < MaxStarts
  /\ timeLeft' = InitialTimeLeft(exam[1])
  /\ view' = "exam"
  /\ currentQuestionIdx' = 0
  /\ showReview' = FALSE
  /\ fullscreen' = (fullscreen \/ granted)
  /\ starts' = starts + 1
  /\ elapsed' = 0
  /\ IF TimerExpired(view', timeLeft')
     THEN /\ submitRequests' = SubmitExam(submitRequests, FALSE, responses)
          /\ calls' = LogCall(<<>>, "timer")
     ELSE /\ calls' = <<>>
          /\ UNCHANGED submitRequests
  /\ UNCHANGED <<examinerVars, studentInfo, responses, finalResult>>
  /\ RunEffects

\* the interval's callback setTimeLeft(prev => prev - 1), then the timer effect,
\* which runs because timeLeft changed
Tick ==
  /\ IntervalActive
  /\ timeLeft' = timeLeft - 1
  /\ elapsed' = elapsed + 1
  /\ IF TimerExpired(view, timeLeft')
     THEN /\ Len(calls) < MaxCalls
          /\ submitRequests' = SubmitExam(submitRequests, FALSE, responses)
          /\ calls' = LogCall(calls, "timer")
     ELSE UNCHANGED <<submitRequests, calls>>
  /\ UNCHANGED <<view, examinerVars, studentInfo, responses, finalResult,
                 currentQuestionIdx, showReview, fullscreen, starts>>
  /\ RunTimerEffect

\* setResponses(prev => ({ ...prev, [qid]: optIdx })), then the timer effect, which
\* runs because submitExam was re-created with the new responses
Answer(qid, optIdx) ==
  /\ responses' = SetResponse(responses, qid, optIdx)
  /\ IF TimerExpired(view, timeLeft)
     THEN /\ Len(calls) < MaxCalls
          /\ submitRequests' = SubmitExam(submitRequests, FALSE, responses')
          /\ calls' = LogCall(calls, "timer")
     ELSE UNCHANGED <<submitRequests, calls>>
  /\ UNCHANGED <<view, examinerVars, studentInfo, timeLeft, finalResult,
                 currentQuestionIdx, showReview, fullscreen, starts, elapsed>>
  /\ RunEffects

CurrentQuestion == exam[1].questions[currentQuestionIdx + 1]

\* an option button of the current question (lines 773-778)
ClickOption(optIdx) ==
  /\ view = "exam" /\ exam # NULL /\ ~showReview
  /\ optIdx \in 0..(Len(CurrentQuestion.options) - 1)
  /\ Answer(CurrentQuestion.id, optIdx)

\* setCurrentQuestionIdx / setShowReview: no effect of the session depends on them
Navigate(idx, review) ==
  /\ currentQuestionIdx' = idx
  /\ showReview' = review
  /\ UNCHANGED <<view, examinerVars, studentInfo, responses, timeLeft, finalResult,
                 fullscreen, submitRequests, starts, elapsed, calls>>
  /\ UNCHANGED registered

\* handleKeyDown (lines 393-409), registered while KeyboardListening
KeyDown(key) ==
  IF ~KeyboardListening
  THEN UNCHANGED vars
  ELSE CASE key = "ArrowRight" ->
              IF currentQuestionIdx < Len(exam[1].questions) - 1
              THEN Navigate(currentQuestionIdx + 1, showReview)
              ELSE UNCHANGED vars
         [] key = "ArrowLeft" ->
              IF currentQuestionIdx > 0
              THEN Navigate(currentQuestionIdx - 1, showReview)
              ELSE UNCHANGED vars
         [] key \in {"1", "2", "3", "4"} ->
              IF DigitValue(key) - 1 < Len(CurrentQuestion.options)
              THEN Answer(CurrentQuestion.id, DigitValue(key) - 1)
              ELSE UNCHANGED vars

\* Previous button, disabled on the first question
ClickPrevious ==
  /\ view = "exam" /\ exam # NULL /\ ~showReview
  /\ currentQuestionIdx # 0
  /\ Navigate(currentQuestionIdx - 1, showReview)

\* the Next Question button rendered on the last question as well
ClickNextOnLast ==
  /\ view = "exam" /\ exam # NULL /\ ~showReview
  /\ Navigate(currentQuestionIdx + 1, showReview)

\* Next Question button, rendered except on the last question
ClickNext ==
  /\ view = "exam" /\ exam # NULL /\ ~showReview
  /\ currentQuestionIdx # Len(exam[1].questions) - 1
  /\ Navigate(currentQuestionIdx + 1, showReview)

\* Review & Submit button, rendered on the last question
ClickReviewAndSubmit ==
  /\ view = "exam" /\ exam # NULL /\ ~showReview
  /\ currentQuestionIdx = Len(exam[1].questions) - 1
  /\ Navigate(currentQuestionIdx, TRUE)

\* a button of the question navigator
ClickNavigator(i) ==
  /\ view = "exam" /\ exam # NULL
  /\ i \in 0..(Len(exam[1].questions) - 1)
  /\ Navigate(i, FALSE)

ClickReviewAll ==
  /\ view = "exam" /\ exam # NULL
  /\ Navigate(currentQuestionIdx, TRUE)

ClickBackToQuestions ==
  /\ view = "exam" /\ exam # NULL /\ showReview
  /\ Navigate(currentQuestionIdx, FALSE)

\* a card of the review list
ClickReviewCard(i) ==
  /\ view = "exam" /\ exam # NULL /\ showReview
  /\ i \in 0..(Len(exam[1].questions) - 1)
  /\ Navigate(i, FALSE)

\* a handler calls submitExam(terminated)
TriggerSubmit(terminated, trigger) ==
  /\ Len(calls) < MaxCalls
  /\ submitRequests' = SubmitExam(submitRequests, terminated, responses)
  /\ calls' = LogCall(calls, trigger)
  /\ UNCHANGED <<view, examinerVars, studentInfo, responses, timeLeft, finalResult,
                 currentQuestionIdx, showReview, fullscreen, starts, elapsed>>
  /\ UNCHANGED registered

\* Submit Final Responses button of the review screen: submitExam()
ClickSubmit ==
  /\ view = "exam" /\ exam # NULL /\ showReview
  /\ TriggerSubmit(FALSE, "user")

(***************************************************************************)
(* Environment signals.                                                    *)
(***************************************************************************)
\* window blur: handleBlur (lines 353-355)
Blur ==
  IF SecurityListening THEN TriggerSubmit(TRUE, "blur") ELSE UNCHANGED vars

\* visibilitychange with document.hidden = hidden: handleVisibilityChange
VisibilityChange(hidden) ==
  IF SecurityListening /\ hidden
  THEN TriggerSubmit(TRUE, "visibility")
  ELSE UNCHANGED vars

\* the user leaves fullscreen (Esc): no fullscreenchange listener is registered
ExitFullscreen ==
  /\ fullscreen
  /\ fullscreen' = FALSE
  /\ UNCHANGED <<view, examinerVars, studentInfo, responses, timeLeft, finalResult,
                 currentQuestionIdx, showReview, submitRequests, starts, elapsed, calls>>
  /\ UNCHANGED registered

(***************************************************************************)
(* The store's answer to POST /api/submit and the rest of submitExam.      *)
(***************************************************************************)
\* marks: one per answered question, right or wrong
ScoreAnswered(questions, key, resp) ==
  Cardinality({ i \in 1..Len(questions) : questions[i].id \in DOMAIN resp })

\* marks: one per question whose response equals the key entry
Score(questions, key, resp) ==
  Cardinality({ i \in 1..Len(questions) :
                  /\ questions[i].id \in DOMAIN resp
                  /\ questions[i].id \in DOMAIN key
                  /\ resp[questions[i].id] = key[questions[i].id] })

\* the store's result for a request about an exam it holds (pass at half the marks)
ResultData(req) ==
  LET saved == store[req.examId]
      score == Score(saved.exam.questions, saved.solutionKey, req.responses)
      total == Len(saved.exam.questions)
  IN [score |-> score, totalMarks |-> total,
      resultStatus |-> IF 2 * score >= total THEN "PASS" ELSE "FAIL"]

\* { ...resultData, terminated }
FinalResult(req, outcome) ==
  IF outcome = "scored"
  THEN [score |-> ResultData(req).score, totalMarks |-> ResultData(req).totalMarks,
        resultStatus |-> ResultData(req).resultStatus, terminated |-> req.terminated]
  ELSE [error |-> "error", terminated |-> req.terminated]

\* the fetch of request i settles: "scored" (the store's result), "error" (an error
\* body that parses as JSON) or "throws" (fetch or res.json() rejects: the rest of
\* submitExam does not run)
SubmitResponse(i, outcome) ==
  /\ i \in 1..Len(submitRequests)
  /\ outcome = "scored" => submitRequests[i].examId \in DOMAIN store
  /\ submitRequests' = SubSeq(submitRequests, 1, i - 1) \o
                       SubSeq(submitRequests, i + 1, Len(submitRequests))
  /\ IF outcome = "throws"
     THEN UNCHANGED <<finalResult, view, fullscreen>>
     ELSE /\ IF view = "crashed"
             THEN UNCHANGED <<finalResult, view>>
             ELSE /\ finalResult' = Some(FinalResult(submitRequests[i], outcome))
                  /\ view' = "result"
          /\ fullscreen' = FALSE
  /\ UNCHANGED <<examinerVars, studentInfo, responses, timeLeft, currentQuestionIdx,
                 showReview, starts, elapsed, calls>>
  /\ RunEffectsIfViewChanged

\* Return to Home button of the result view: window.location.reload() constructs
\* the component anew; the continuations of the requests in flight are gone
Reload ==
  /\ view = "result" /\ finalResult # NULL
  /\ view' = "landing"
  /\ exam' = NULL
  /\ solutionKey' = NULL
  /\ studentInfo' = [name |-> "", class |-> ""]
  /\ responses' = EmptyResponses
  /\ timeLeft' = 0
  /\ finalResult' = NULL
  /\ isSaved' = FALSE
  /\ examTitle' = ""
  /\ examDuration' = <<"3", "0">>
  /\ examinerEmail' = ""
  /\ questionFile' = NULL
  /\ isProcessing' = FALSE
  /\ extractedQuestions' = <<>>
  /\ extractedKey' = NULL
  /\ currentQuestionIdx' = 0
  /\ showReview' = FALSE
  /\ fullscreen' = FALSE
  /\ extraction' = FALSE
  /\ saveRequests' = <<>>
  /\ submitRequests' = <<>>
  /\ starts' = 0
  /\ elapsed' = 0
  /\ calls' = <<>>
  /\ UNCHANGED <<store, examsCreated>>
  /\ registered' = [interval |-> 0, security |-> 0]

Outcomes == {"scored", "error", "throws"}

Next ==
  \/ ClickHeader
  \/ ClickExaminerPortal
  \/ ClickStudentPortal
  \/ ClickBack
  \/ \E v \in Titles : setExamTitle(v)
  \/ \E v \in DurationInputs \cup ZeroDurationInputs \cup NegativeDurationInputs :
       setExamDuration(v)
  \/ \E v \in Emails : setExaminerEmail(v)
  \/ \E f \in Files : setQuestionFile(f)
  \/ handleProcessPDFs
  \/ \E data \in ExtractionOutputs \cup UnkeyedOutputs \cup MalformedOutputs
                   \cup SecondPaperOutputs : ExtractionReturns(data)
  \/ ExtractionFails
  \/ handleSaveExam
  \/ \E i \in 1..Len(saveRequests), ok \in BOOLEAN : SaveResponse(i, ok)
  \/ \E v \in Names \cup EmptyTexts : setStudentName(v)
  \/ \E v \in Classes \cup EmptyTexts : setStudentClass(v)
  \/ \E granted \in BOOLEAN : startExam(granted)
  \/ Tick
  \/ \E optIdx \in 0..3 : ClickOption(optIdx)
  \/ \E key \in Keys : KeyDown(key)
  \/ ClickPrevious
  \/ ClickNext
  \/ ClickReviewAndSubmit
  \/ \E i \in 0..3 : ClickNavigator(i)
  \/ ClickReviewAll
  \/ ClickBackToQuestions
  \/ \E i \in 0..3 : ClickReviewCard(i)
  \/ ClickSubmit
  \/ Blur
  \/ \E hidden \in BOOLEAN : VisibilityChange(hidden)
  \/ ExitFullscreen
  \/ \E i \in 1..Len(submitRequests), outcome \in Outcomes : SubmitResponse(i, outcome)
  \/ Reload

Spec == Init /\ [][Next]_vars

(***************************************************************************)
(* Two sets of behaviours of Spec that are small enough to be explored in  *)
(* full.  In both the extraction returns the well-formed paper, one exam   *)
(* is finalized, the examiner finishes (no extraction or save request is   *)
(* pending) before the student portal is opened, and the examiner portal   *)
(* is not opened again once an exam has been started.                      *)
(*                                                                         *)
(* SpecCountdown: the exam view is entered once, with fullscreen granted   *)
(* and kept, and the countdown runs undisturbed: no integrity signal and   *)
(* no click on Submit Final Responses occurs while the interval is active; *)
(* they do occur once it has stopped.                                      *)
(*                                                                         *)
(* SpecFirstSecond: everything happens before the first tick.  The exam    *)
(* view is entered again only if the previous stay did not call            *)
(* submitExam.                                                             *)
(***************************************************************************)
NextCountdown ==
  \/ ClickHeader
  \/ starts = 0 /\ ClickExaminerPortal
  \/ ~extraction /\ saveRequests = <<>> /\ ClickStudentPortal
  \/ ClickBack
  \/ \E v \in Titles : setExamTitle(v)
  \/ \E v \in DurationInputs : setExamDuration(v)
  \/ \E v \in Emails : setExaminerEmail(v)
  \/ \E f \in Files : setQuestionFile(f)
  \/ handleProcessPDFs
  \/ \E data \in ExtractionOutputs : ExtractionReturns(data)
  \/ ExtractionFails
  \/ examsCreated = 0 /\ handleSaveExam
  \/ \E i \in 1..Len(saveRequests), ok \in BOOLEAN : SaveResponse(i, ok)
  \/ \E v \in Names \cup EmptyTexts : setStudentName(v)
  \/ \E v \in Classes \cup EmptyTexts : setStudentClass(v)
  \/ \E optIdx \in 0..3 : ClickOption(optIdx)
  \/ \E key \in Keys : KeyDown(key)
  \/ ClickPrevious
  \/ ClickNext
  \/ ClickReviewAndSubmit
  \/ \E i \in 0..3 : ClickNavigator(i)
  \/ ClickReviewAll
  \/ ClickBackToQuestions
  \/ \E i \in 0..3 : ClickReviewCard(i)
  \/ \E i \in 1..Len(submitRequests), outcome \in Outcomes : SubmitResponse(i, outcome)
  \/ Reload
  \/ starts = 0 /\ startExam(TRUE)
  \/ Tick
  \/ ~IntervalActive /\ ClickSubmit
  \/ ~IntervalActive /\ Blur
  \/ \E hidden \in BOOLEAN : ~IntervalActive /\ VisibilityChange(hidden)

SpecCountdown == Init /\ [][NextCountdown]_vars

NextFirstSecond ==
  \/ ClickHeader
  \/ starts = 0 /\ ClickExaminerPortal
  \/ ~extraction /\ saveRequests = <<>> /\ ClickStudentPortal
  \/ ClickBack
  \/ \E v \in Titles : setExamTitle(v)
  \/ \E v \in DurationInputs : setExamDuration(v)
  \/ \E v \in Emails : setExaminerEmail(v)
  \/ \E f \in Files : setQuestionFile(f)
  \/ handleProcessPDFs
  \/ \E data \in ExtractionOutputs : ExtractionReturns(data)
  \/ ExtractionFails
  \/ examsCreated = 0 /\ handleSaveExam
  \/ \E i \in 1..Len(saveRequests), ok \in BOOLEAN : SaveResponse(i, ok)
  \/ \E v \in Names : setStudentName(v)
  \/ \E v \in Classes : setStudentClass(v)
  \/ \E optIdx \in 0..3 : ClickOption(optIdx)
  \/ \E key \in Keys : KeyDown(key)
  \/ ClickPrevious
  \/ ClickNext
  \/ ClickReviewAndSubmit
  \/ \E i \in 0..3 : ClickNavigator(i)
  \/ ClickReviewAll
  \/ ClickBackToQuestions
  \/ \E i \in 0..3 : ClickReviewCard(i)
  \/ \E i \in 1..Len(submitRequests), outcome \in Outcomes : SubmitResponse(i, outcome)
  \/ Reload
  \/ \E granted \in BOOLEAN : (starts = 0 \/ calls = <<>>) /\ startExam(granted)
  \/ ClickSubmit
  \/ Blur
  \/ \E hidden \in BOOLEAN : VisibilityChange(hidden)
  \/ ExitFullscreen

SpecFirstSecond == Init /\ [][NextFirstSecond]_vars

(***************************************************************************)
(* SpecInterrupted: the exam view is entered once, also with an exam of no *)
(* minutes or of minus one minute; the student answers nothing and only    *)
(* opens the review screen; integrity signals and Submit Final Responses   *)
(* occur at any second of the countdown.                                   *)
(***************************************************************************)
NextInterrupted ==
  \/ ClickHeader
  \/ starts = 0 /\ ClickExaminerPortal
  \/ ~extraction /\ saveRequests = <<>> /\ ClickStudentPortal
  \/ ClickBack
  \/ \E v \in Titles : setExamTitle(v)
  \/ \E v \in DurationInputs \cup ZeroDurationInputs \cup NegativeDurationInputs :
       setExamDuration(v)
  \/ \E v \in Emails : setExaminerEmail(v)
  \/ \E f \in Files : setQuestionFile(f)
  \/ handleProcessPDFs
  \/ \E data \in ExtractionOutputs : ExtractionReturns(data)
  \/ ExtractionFails
  \/ examsCreated = 0 /\ handleSaveExam
  \/ \E i \in 1..Len(saveRequests), ok \in BOOLEAN : SaveResponse(i, ok)
  \/ \E v \in Names : setStudentName(v)
  \/ \E v \in Classes : setStudentClass(v)
  \/ starts = 0 /\ startExam(TRUE)
  \/ Tick
  \/ ClickReviewAll
  \/ ClickBackToQuestions
  \/ ClickSubmit
  \/ Blur
  \/ \E hidden \in BOOLEAN : VisibilityChange(hidden)
  \/ \E i \in 1..Len(submitRequests), outcome \in Outcomes : SubmitResponse(i, outcome)
  \/ Reload

SpecInterrupted == Init /\ [][NextInterrupted]_vars

(***************************************************************************)
(* SpecExaminer: the extraction returns any of the outputs, well-formed or *)
(* not, the examiner portal is opened again at any time and a second exam  *)
(* is finalized; the student portal is opened when no extraction or save   *)
(* request is pending; the student answers by clicking options, submits at *)
(* most once and enters the exam view again only before submitting; no     *)
(* second passes and no response to a submission arrives.                  *)
(***************************************************************************)
NextExaminer ==
  \/ ClickHeader
  \/ ClickExaminerPortal
  \/ ~extraction /\ saveRequests = <<>> /\ ClickStudentPortal
  \/ ClickBack
  \/ \E v \in Titles : setExamTitle(v)
  \/ \E v \in DurationInputs : setExamDuration(v)
  \/ \E v \in Emails : setExaminerEmail(v)
  \/ \E f \in Files : setQuestionFile(f)
  \/ handleProcessPDFs
  \/ \E data \in ExtractionOutputs \cup UnkeyedOutputs \cup MalformedOutputs
                   \cup SecondPaperOutputs : ExtractionReturns(data)
  \/ ExtractionFails
  \/ handleSaveExam
  \/ \E i \in 1..Len(saveRequests), ok \in BOOLEAN : SaveResponse(i, ok)
  \/ \E v \in Names : setStudentName(v)
  \/ \E v \in Classes : setStudentClass(v)
  \/ calls = <<>> /\ startExam(TRUE)
  \/ \E optIdx \in 0..3 : ClickOption(optIdx)
  \/ ClickNext
  \/ ClickReviewAll
  \/ calls = <<>> /\ ClickSubmit

SpecExaminer == Init /\ [][NextExaminer]_vars

(***************************************************************************)
(* SpecLive: the exam view is entered once and the student does nothing:   *)
(* only the countdown and the store act.  Fairness: while an interval is   *)
(* set the next tick occurs, and every POST /api/submit in flight is       *)
(* eventually settled, with a result, an error body or a rejection.        *)
(***************************************************************************)
NextLive ==
  \/ starts = 0 /\ ClickExaminerPortal
  \/ ~extraction /\ saveRequests = <<>> /\ ClickStudentPortal
  \/ ClickBack
  \/ \E v \in Titles : setExamTitle(v)
  \/ \E v \in DurationInputs : setExamDuration(v)
  \/ \E v \in Emails : setExaminerEmail(v)
  \/ \E f \in Files : setQuestionFile(f)
  \/ handleProcessPDFs
  \/ \E data \in ExtractionOutputs : ExtractionReturns(data)
  \/ ExtractionFails
  \/ examsCreated = 0 /\ handleSaveExam
  \/ \E i \in 1..Len(saveRequests), ok \in BOOLEAN : SaveResponse(i, ok)
  \/ \E v \in Names : setStudentName(v)
  \/ \E v \in Classes : setStudentClass(v)
  \/ starts = 0 /\ startExam(TRUE)
  \/ Tick
  \/ \E i \in 1..Len(submitRequests), outcome \in Outcomes : SubmitResponse(i, outcome)

\* some request to /api/submit is settled
SubmitSettles ==
  \E i \in 1..Len(submitRequests), outcome \in Outcomes : SubmitResponse(i, outcome)

SpecLive ==
  Init /\ [][NextLive]_vars /\ WF_vars(Tick) /\ WF_vars(SubmitSettles)

(***************************************************************************)
(* Properties.                                                             *)
(***************************************************************************)
Violations == {"blur", "visibility"}
PostedCalls == { i \in 1..Len(calls) : calls[i].posted }
ViolationCalls == { i \in 1..Len(calls) : calls[i].trigger \in Violations }
ExpiryCalls == { i \in 1..Len(calls) : calls[i].trigger = "timer" }
Last(seq) == seq[Len(seq)]

\* C1: in a session submitExam sends at most one POST /api/submit, whatever the
\* interleaving of timer expiry, integrity signals and clicks on Submit Final
\* Responses; every later terminal trigger is a no-op.
AtMostOneSubmission == Cardinality(PostedCalls) <= 1

\* C2: when timer expiry and an integrity violation are both triggered before
\* either submission has completed, exactly one terminal transition occurs, and
\* the terminated flag of the result is that of the trigger that fired first.
ExpiryAndViolationOneTransition ==
  (ExpiryCalls # {} /\ ViolationCalls # {}) =>
     /\ Cardinality(PostedCalls) = 1
     /\ finalResult # NULL =>
          (finalResult[1].terminated <=> calls[1].trigger \in Violations)

\* C3: when a visibility-loss or focus-loss signal is the first terminal trigger
\* of the session, the result recorded (a scored result of the store) has
\* terminated = true, whatever expires or is submitted afterwards.
ViolationFirstRecordedTerminated ==
  (/\ calls # <<>> /\ calls[1].trigger \in Violations
   /\ finalResult # NULL /\ "score" \in DOMAIN finalResult[1]) =>
     finalResult[1].terminated

\* C4: the exam view is entered at most once: no sequence of UI actions enters it
\* a second time with timeLeft reset.
ExamEnteredAtMostOnce == starts <= 1

\* the student's answer, navigate and submit actions
AnswerNavigateSubmit ==
  \/ \E optIdx \in 0..3 : ClickOption(optIdx)
  \/ \E key \in Keys : KeyDown(key)
  \/ ClickPrevious
  \/ ClickNext
  \/ ClickReviewAndSubmit
  \/ \E i \in 0..3 : ClickNavigator(i)
  \/ ClickReviewAll
  \/ ClickBackToQuestions
  \/ \E i \in 0..3 : ClickReviewCard(i)
  \/ ClickSubmit

\* C5: once a terminal trigger has been handled, answer, navigate and submit
\* actions are no-ops: responses, currentQuestionIdx, view and finalResult do not
\* change and no further POST /api/submit is sent.
NoOpsAfterTerminal ==
  [][(calls # <<>> /\ AnswerNavigateSubmit) =>
       UNCHANGED <<responses, currentQuestionIdx, view, finalResult, submitRequests>>]_vars

\* C6: the session is terminal as soon as the trigger is handled: no submission
\* is in flight while the session still accepts answers and navigation, ticks or
\* violations.
TerminalBeforeResponse ==
  submitRequests # <<>> =>
     ~(KeyboardListening \/ SecurityListening \/ IntervalActive \/ view = "exam")

\* C7: with nothing else triggering a submission before, the session auto-submits
\* exactly when durationMinutes * 60 ticks have elapsed, not earlier, with
\* terminated = false and the responses of that tick as payload.
AutoSubmitAtExpiry ==
  /\ [](view = "exam" =>
          /\ elapsed < exam[1].durationMinutes * 60 =>
               (calls = <<>> /\ submitRequests = <<>>)
          /\ elapsed = exam[1].durationMinutes * 60 =>
               (calls # <<>> /\ calls[1] = [trigger |-> "timer", posted |-> TRUE]))
  /\ [][(calls' # calls /\ calls' # <<>> /\ Last(calls').trigger = "timer") =>
          /\ elapsed' = exam[1].durationMinutes * 60
          /\ Len(submitRequests') = Len(submitRequests) + 1
          /\ Last(submitRequests').terminated = FALSE
          /\ Last(submitRequests').responses = responses']_vars

\* C7 witness: the countdown of a one-minute exam ran out after answers were given
AutoSubmitAtExpiryWitness ==
  /\ view = "exam"
  /\ elapsed = 60
  /\ calls = <<[trigger |-> "timer", posted |-> TRUE]>>
  /\ Len(submitRequests) = 1
  /\ ~submitRequests[1].terminated
  /\ DOMAIN submitRequests[1].responses = {"q1", "q2"}

\* C8: while the exam view is active, leaving fullscreen terminates the session
\* (submitExam with terminated = true), as visibility loss and focus loss do.
FullscreenExitTerminates ==
  [][(view = "exam" /\ ExitFullscreen) =>
       /\ Len(submitRequests') = Len(submitRequests) + 1
       /\ Last(submitRequests').terminated]_vars

\* C9: within one exam session the violation callback submitExam(true) is invoked
\* at most once, even when several signals fire before the first submission
\* completes.
AtMostOneViolationCall == Cardinality(ViolationCalls) <= 1

\* C10: timer expiry calls submitExam exactly once per session, also when the
\* responses change while timeLeft is 0 and the exam view is still shown, and no
\* tick occurs after timeLeft reached 0.
ExpiryFiresOnce ==
  /\ Cardinality(ExpiryCalls) <= 1
  /\ (view = "exam" /\ timeLeft <= 0) => (ExpiryCalls # {} /\ ~IntervalActive)

\* the triggers of the terminal transitions submit() and onViolation
TerminalTriggers == {"user"} \cup Violations

\* C11: once a click on Submit Final Responses or an integrity violation has been
\* handled, the timer is cancelled and the monitor disarmed: no tick decrements
\* timeLeft any more and neither timer expiry nor an integrity signal calls
\* submitExam again.
CancelledAfterTerminal ==
  [][(calls # <<>> /\ calls[1].trigger \in TerminalTriggers) =>
       (elapsed' <= elapsed /\ Len(calls') <= Len(calls))]_vars

\* C12: for every question of the exam handleSaveExam produces, the option at the
\* new solution-key index has the text of the option that was correct under the
\* extracted key, and no earlier option of the shuffled question has that text
\* (first matching position).
ShuffleKeepsCorrectText ==
  [][(exam' # exam /\ exam' # NULL) =>
       \A i \in 1..Len(extractedQuestions) :
         LET q == extractedQuestions[i]
             shuffled == exam'[1].questions[i].options
             text == q.options[extractedKey[1][q.id] + 1]
             k == solutionKey'[1][q.id]
         IN /\ exam'[1].questions[i].id = q.id
            /\ k \in 0..(Len(shuffled) - 1)
            /\ shuffled[k + 1] = text
            /\ \A j \in 1..k : shuffled[j] # text]_vars

\* C12 witness: the exam whose first question had its options swapped (the correct
\* "a" moved to index 1) and whose second question repeats its option text
ShuffleKeepsCorrectTextWitness ==
  /\ exam # NULL
  /\ exam[1].questions[1].options = <<"b", "a">>
  /\ exam[1].questions[2].options = <<"c", "c">>
  /\ solutionKey[1] = [q1 |-> 1, q2 |-> 0]

\* C13: every exam handleSaveExam makes available satisfies the SolutionKey
\* invariant, whatever output with questions and a solutionKey the extraction
\* returned: the key has exactly the question ids as its entries and each entry
\* is an index of an option of its question.
SolutionKeyInvariant ==
  exam # NULL =>
    LET questions == exam[1].questions
        key == solutionKey[1]
    IN /\ DOMAIN key = { questions[i].id : i \in 1..Len(questions) }
       /\ \A i \in 1..Len(questions) :
            /\ questions[i].id \in DOMAIN key
            /\ key[questions[i].id] \in 0..(Len(questions[i].options) - 1)

\* every entry of resp is an option index of a question of ex
ResponsesOf(resp, ex) ==
  \A qid \in DOMAIN resp :
    \E i \in 1..Len(ex.questions) :
      /\ ex.questions[i].id = qid
      /\ resp[qid] \in 0..(Len(ex.questions[i].options) - 1)

\* C14: in the exam view, and in every payload of a POST /api/submit, each entry
\* of responses refers to a question of the current exam and holds an index of one
\* of its options; an unknown id or an index out of range is never stored.
StoredResponsesInRange ==
  /\ (view = "exam" /\ exam # NULL) => ResponsesOf(responses, exam[1])
  /\ \A r \in 1..Len(submitRequests) :
       (exam # NULL /\ submitRequests[r].examId = exam[1].id) =>
          ResponsesOf(submitRequests[r].responses, exam[1])

\* C15: startExam with an exam loaded enters the exam view with timeLeft =
\* durationMinutes * 60, currentQuestionIdx = 0 and the review screen hidden, and
\* in that state the countdown (the interval) and the integrity listeners are
\* active.
StartExamEffect ==
  [][(view # "exam" /\ view' = "exam") =>
       /\ exam # NULL
       /\ timeLeft' = exam[1].durationMinutes * 60
       /\ currentQuestionIdx' = 0
       /\ ~showReview'
       /\ SecurityListening'
       /\ IntervalActive']_vars

\* C16: the exam view is entered only with an exam loaded and a name and a class
\* that are not empty (otherwise the start is blocked), so in every state of the
\* exam view the exam is not null and name and class are not empty.
RegisteredBeforeExam ==
  /\ [](view = "exam" =>
          (exam # NULL /\ studentInfo.name # "" /\ studentInfo.class # ""))
  /\ [][(view # "exam" /\ view' = "exam") =>
          (exam # NULL /\ studentInfo.name # "" /\ studentInfo.class # "")]_vars

\* C16 witness: the exam view entered by a registered student
RegisteredBeforeExamWitness ==
  /\ view = "exam" /\ starts = 1 /\ calls = <<>>
  /\ exam # NULL
  /\ studentInfo = [name |-> "Ann", class |-> "12A"]

\* C18: when the extraction fails or returns malformed or empty output, the failure
\* is reported (the catch block of handleProcessPDFs, which alerts, handles it) and
\* no exam is created: the dashboard stays up, extractedQuestions and extractedKey
\* keep their values and exam does not change.
MalformedExtractionReported ==
  [][((\E data \in MalformedOutputs : ExtractionReturns(data)) \/ ExtractionFails) =>
       /\ ExtractionFails
       /\ view' # "crashed"
       /\ UNCHANGED <<extractedQuestions, extractedKey, exam>>]_vars

\* C17: a submission that fails (the fetch rejects, or the store answers with an
\* error) is not presented as success and is retried: the step that handles the
\* failure does not enter the result view, and a request is sent again in place
\* of the failed one.
FailedSubmissionRetried ==
  [][\A i \in 1..Len(submitRequests) :
       (SubmitResponse(i, "error") \/ SubmitResponse(i, "throws")) =>
          (view' # "result" /\ Len(submitRequests') = Len(submitRequests))]_vars

\* the condition under which the dashboard renders Finalize & Save (line 612)
FinalizeRendered == Len(extractedQuestions) > 0 /\ extractedKey # NULL /\ ~isSaved

\* C19: when the store rejects or fails the create request, the creation does not
\* take effect: isSaved stays as it was, Finalize & Save stays available for a
\* retry, and no exam is loaded (one a student could begin) that the store does
\* not hold.
RejectedCreateHasNoEffect ==
  [][\A i \in 1..Len(saveRequests) :
       SaveResponse(i, FALSE) =>
          /\ isSaved' = isSaved
          /\ ~isSaved => FinalizeRendered'
          /\ exam' # NULL => exam'[1].id \in DOMAIN store']_vars

\* C20: the result is produced once and is immutable: once finalResult is set, no
\* later step (the response to a second submission in flight) sets it to another
\* value.
ResultImmutable ==
  [][(finalResult # NULL /\ finalResult' # NULL) => finalResult' = finalResult]_vars

\* C21: the result of a scored submission has one mark per question whose response
\* equals the key entry and none otherwise: with every question answered as the
\* key says score = totalMarks and resultStatus = PASS, and with empty responses
\* score = 0.
ScoringAwardsMarks ==
  [][\A i \in 1..Len(submitRequests) :
       (SubmitResponse(i, "scored") /\ view # "crashed") =>
          LET resp == submitRequests[i].responses
              questions == store[submitRequests[i].examId].exam.questions
              key == store[submitRequests[i].examId].solutionKey
              correct == { n \in 1..Len(questions) :
                             /\ questions[n].id \in DOMAIN resp
                             /\ resp[questions[n].id] = key[questions[n].id] }
              result == finalResult'[1]
          IN /\ result.score = Cardinality(correct)
             /\ result.totalMarks = Len(questions)
             /\ correct = 1..Len(questions) =>
                  (result.score = result.totalMarks /\ result.resultStatus = "PASS")
             /\ resp = EmptyResponses => result.score = 0]_vars

\* C21 witness: the result of a submission that answered both questions as the key
\* says
ScoringAwardsMarksWitness ==
  /\ view = "result" /\ finalResult # NULL
  /\ "score" \in DOMAIN finalResult[1]
  /\ finalResult[1].score = 2 /\ finalResult[1].totalMarks = 2
  /\ finalResult[1].resultStatus = "PASS"

\* C22: in the exam view 0 <= currentQuestionIdx < exam.questions.length, whatever
\* arrow keys, Previous and Next clicks, navigator and review-card clicks occur,
\* and an arrow key pressed at either end leaves the index unchanged.
QuestionIndexInRange ==
  /\ [](view = "exam" =>
          (exam # NULL /\ currentQuestionIdx \in 0..(Len(exam[1].questions) - 1)))
  /\ [][(/\ view = "exam"
          /\ \/ KeyDown("ArrowRight") /\ currentQuestionIdx = Len(exam[1].questions) - 1
             \/ KeyDown("ArrowLeft") /\ currentQuestionIdx = 0) =>
          currentQuestionIdx' = currentQuestionIdx]_vars

\* C22 witness: the last question reached in the exam view
QuestionIndexInRangeWitness ==
  /\ view = "exam" /\ exam # NULL /\ ~showReview
  /\ currentQuestionIdx = Len(exam[1].questions) - 1
  /\ currentQuestionIdx > 0

\* C23: a key press (arrows, 1-4) changes currentQuestionIdx or responses only
\* while the exam view is shown and the review screen is not; in every other
\* state it leaves both unchanged.
ShortcutsOnlyInExam ==
  [][(\E key \in Keys : KeyDown(key) /\ ~(view = "exam" /\ ~showReview)) =>
       UNCHANGED <<currentQuestionIdx, responses>>]_vars

\* C23 witness: the review screen shown after the second question was answered
ShortcutsOnlyInExamWitness ==
  /\ view = "exam" /\ showReview
  /\ currentQuestionIdx = 1
  /\ DOMAIN responses = {"q2"}

\* C24: timeLeft is an integer >= 0 in every state, whatever duration the examiner
\* form accepted (0 and negative numbers included), and while the exam view is
\* shown it changes only by a tick that decreases it by exactly 1.
TimeLeftNonNegative ==
  /\ [](timeLeft \in Nat)
  /\ [][(view = "exam" /\ view' = "exam" /\ timeLeft' # timeLeft) =>
          (timeLeft' = timeLeft - 1 /\ elapsed' = elapsed + 1)]_vars

\* C25: at most one interval is set at any time, every re-run of the timer effect
\* clearing the previous one, so timeLeft is decremented once per elapsed second:
\* in the exam view timeLeft and the seconds elapsed add up to the duration.
OneTickSource ==
  /\ registered.interval <= 1
  /\ IntervalActive => registered.interval = 1
  /\ (view = "exam" /\ exam # NULL) =>
        timeLeft + elapsed = exam[1].durationMinutes * 60

\* C25 witness: the countdown after ticks and answers re-ran the timer effect
OneTickSourceWitness ==
  /\ view = "exam" /\ registered.interval = 1
  /\ elapsed = 2 /\ timeLeft = 58
  /\ DOMAIN responses = {"q1", "q2"}

\* C26: timer and integrity listeners are released on every path out of the exam
\* view (result, header): outside the exam view no interval is set, no
\* visibilitychange, blur or beforeunload listener is registered, and no signal
\* submits.
ReleasedOutsideExam ==
  /\ [](view # "exam" => registered = [interval |-> 0, security |-> 0])
  /\ [][(view # "exam" /\ (Blur \/ \E hidden \in BOOLEAN : VisibilityChange(hidden))) =>
          UNCHANGED <<submitRequests, calls, view, finalResult>>]_vars

\* C26 witness: the exam view left through the header while the countdown ran
ReleasedOutsideExamWitness ==
  /\ view = "landing" /\ starts = 1
  /\ timeLeft \in 1..59
  /\ registered = [interval |-> 0, security |-> 0]

\* C27: the exam and the solution key are created once and immutable afterwards:
\* once handleSaveExam has set them, no later action (a second Finalize & Save, a
\* new extraction) changes the exam's id, questions, option order or key.
ExamImmutable ==
  [][(exam # NULL /\ exam' # NULL) =>
       (exam' = exam /\ solutionKey' = solutionKey)]_vars

\* how often x occurs in seq
Occurrences(seq, x) == Cardinality({ j \in 1..Len(seq) : seq[j] = x })

\* C28: the shuffle of handleSaveExam is a pure transformation: extractedQuestions
\* and extractedKey are unchanged, and each question of the exam has the id and
\* the text of the extracted question and the same options as a multiset.
ShufflePure ==
  [][(exam' # exam /\ exam' # NULL) =>
       /\ UNCHANGED <<extractedQuestions, extractedKey>>
       /\ Len(exam'[1].questions) = Len(extractedQuestions)
       /\ \A i \in 1..Len(extractedQuestions) :
            LET q == extractedQuestions[i]
                sq == exam'[1].questions[i]
            IN /\ sq.id = q.id
               /\ sq.text = q.text
               /\ Len(sq.options) = Len(q.options)
               /\ \A j \in 1..Len(q.options) :
                    Occurrences(sq.options, q.options[j]) =
                      Occurrences(q.options, q.options[j])]_vars

\* C28 witness: the exam finalized from the extracted paper with the options of
\* the first question in the other order
ShufflePureWitness ==
  /\ exam # NULL
  /\ Len(extractedQuestions) = 2
  /\ extractedQuestions[1].options = <<"a", "b">>
  /\ exam[1].questions[1].options = <<"b", "a">>
  /\ exam[1].questions[1].text = "t1"
  /\ extractedKey = Some([q1 |-> 0, q2 |-> 1])

\* C29: every started session eventually reaches the result view: with ticks that
\* keep occurring and store requests that are all eventually settled, the exam
\* view leads to the result view.
SessionReachesResult == (view = "exam") ~> (view = "result")

====
